---- MODULE Spec2Model ----
(***************************************************************************)
(* ID3 decision-tree induction (src/id3.py), as a state machine.           *)
(*                                                                         *)
(* A csv file is a header plus rows.  Columns are named by their index:    *)
(* columns 1..NumAttrs are the independent attributes and the last column  *)
(* is the dependent one (parse_csv, dependent_index = -1).  learn() parses *)
(* the file, collects the distinct values of every column and runs the     *)
(* recursion create_tree.  The recursion is modelled with an explicit call *)
(* stack: one step runs the body of one create_tree call (lines 32-76),    *)
(* another returns from a call whose loop over the domain values is over.  *)
(* An exception raised inside a call unwinds the whole stack in that step. *)
(*                                                                         *)
(* Numbers: math.log(p, 2) and the float divisions are modelled in fixed   *)
(* point.  Log2 holds log2 of the integers in millionths of a bit, and an  *)
(* entropy or a gain is the rational number num / den millionths of a bit. *)
(* Gains are compared exactly, not after rounding to a float.              *)
(*                                                                         *)
(* The order in which a set or a dict iterates is fixed by the hashes of   *)
(* its keys: hashOrder holds one order per column, any order is possible.  *)
(***************************************************************************)
EXTENDS Integers, Sequences, FiniteSets, TLC

\* Bounds of the model.
NumAttrs == 3      \* independent attributes (columns before the last)
NumVals == 2       \* values an independent attribute may take
NumLabels == 2     \* values the dependent attribute may take
MaxRows == 4       \* data rows in the file
MaxRuns == 2       \* calls of learn() on the one ID3 object

\* None (self.dtree = None, parent=None, parent_value=None, information_gain=None).
None == 0
\* The boolean True that get_base_entropy passes as `value`.
BoolTrue == 0

VARIABLES
    file,        \* the rows of the csv file self.filename names
    hashOrder,   \* per column: the order in which a set or a dict of its values iterates
    data,        \* self.data
    values,      \* self.values
    dtree,       \* self.dtree: the nodes of the tree, root first; <<>> is None
    stack,       \* the active create_tree calls that are inside their for loop
    error,       \* the exception learn() ended with, or "none"
    runs,        \* number of learn() calls made
    frames,      \* history: per node of dtree, the subset and branch of the call that made it
    lastFrame,   \* history: the create_tree call body executed last
    prevTree     \* history: self.dtree and the outcome as the latest learn() call found them

vars == <<file, hashOrder, data, values, dtree, stack, error, runs, frames, lastFrame, prevTree>>

NumCols == NumAttrs + 1
all_attributes == [i \in 1..NumCols |-> i]
dependent == all_attributes[NumCols]
attributes == SelectSeq(all_attributes, LAMBDA a : a # dependent)

-----------------------------------------------------------------------------
\* Helpers on sequences and Counters.

Range(s) == {s[i] : i \in DOMAIN s}

RECURSIVE SumFn(_)
SumFn(f) ==
    IF DOMAIN f = {} THEN 0
    ELSE LET k == CHOOSE x \in DOMAIN f : TRUE
         IN  f[k] + SumFn([j \in DOMAIN f \ {k} |-> f[j]])

\* Counter.__getitem__: a missing key counts 0.
Get(counts, k) == IF k \in DOMAIN counts THEN counts[k] ELSE 0

\* The keys of a Counter over column attr, in the order the dict iterates them.
Keys(order, counts) == SelectSeq(order, LAMBDA v : v \in DOMAIN counts)

\* max(seq, key=...) over the sequence of the keys: the index of the first element
\* whose key is not exceeded.
FirstMaxIndex(keys) ==
    CHOOSE i \in DOMAIN keys :
        /\ \A j \in DOMAIN keys : keys[j] <= keys[i]
        /\ \A j \in 1..(i - 1) : keys[j] < keys[i]

\* log2 of 1..8 in millionths of a bit (log2 of a product is the sum of the logs).
Log2 == <<0, 1000000, 1584963, 2000000, 2321928, 2584963, 2807355, 3000000>>

-----------------------------------------------------------------------------
\* The pure methods of ID3.

Mut_filter_subset(subset, attr, value) == subset

filter_subset(subset, attr, value) ==
    SelectSeq(subset, LAMBDA r : r[attr] = value)

attr_counts(subset, attr) ==
    [v \in {subset[i][attr] : i \in DOMAIN subset} |->
        Cardinality({i \in DOMAIN subset : subset[i][attr] = v})]

value_occurrences(subset, attr, value) ==
    LET hit == {i \in DOMAIN subset : subset[i][attr] = value \/ value = BoolTrue}
    IN  [d \in {subset[i][dependent] : i \in hit} |->
            Cardinality({i \in hit : subset[i][dependent] = d})]

\* entropy = sum over the observed dependent values of -(p * log2 p), p = occs/total.
\* With no occurrence the loop body never runs and the result is the initial 0.
entropy(subset, attr, value) ==
    LET occs == value_occurrences(subset, attr, value)
        total == SumFn(occs)
    IN  IF total = 0 THEN [num |-> 0, den |-> 1]
        ELSE [num |-> SumFn([d \in DOMAIN occs |-> occs[d] * (Log2[total] - Log2[occs[d]])]),
              den |-> total]

get_base_entropy(subset) == entropy(subset, dependent, BoolTrue)

\* One summand of information_gain: (occs[value]/total) * entropy(subset, attr, value),
\* as the numerator over the denominator total; the float division raises when total is 0.
Mut_GainTerm(subset, attr, value) ==
    LET occs == attr_counts(subset, attr)
        e == entropy(subset, attr, value)
    IN  IF Get(occs, value) = 0 THEN [err |-> "ZeroDivisionError", num |-> 0]
        ELSE [err |-> "none", num |-> (Get(occs, value) * e.num) \div e.den]

GainTerm(subset, attr, value) ==
    LET occs == attr_counts(subset, attr)
        total == SumFn(occs)
        e == entropy(subset, attr, value)
    IN  IF total = 0 THEN [err |-> "ZeroDivisionError", num |-> 0]
        ELSE [err |-> "none", num |-> (Get(occs, value) * e.num) \div e.den]

information_gain(vals, subset, attr) ==
    LET total == SumFn(attr_counts(subset, attr))
        terms == [v \in vals[attr] |-> GainTerm(subset, attr, v)]
    IN  IF \E v \in vals[attr] : terms[v].err # "none"
        THEN [err |-> "ZeroDivisionError", num |-> 0, den |-> 1]
        ELSE [err |-> "none",
              num |-> get_base_entropy(subset).num - SumFn([v \in vals[attr] |-> terms[v].num]),
              den |-> IF total = 0 THEN 1 ELSE total]

get_distinct_values(rows) ==
    [attr \in Range(all_attributes) |-> {rows[i][attr] : i \in DOMAIN rows}]

-----------------------------------------------------------------------------
\* dtree.DTree, the tree node id3.py imports.  A tree is the sequence of its nodes
\* in the order they were made, the root first; children holds indices into it.

\* DTree(attribute, information_gain=None, leaf=False, parent_value=None)
DTree(attr, gain, isLeaf, value) ==
    [attribute |-> attr, information_gain |-> gain, leaf |-> isLeaf,
     parent_value |-> value, children |-> <<>>, attribute_order |-> <<>>]

\* DTree.set_attributes: the root keeps the column order of the attributes.
set_attributes(node, attrs) == [node EXCEPT !.attribute_order = attrs]

\* DTree.add_child: the node joins the tree as the last child of its parent.
add_child(tree, parent, node) ==
    Append([tree EXCEPT ![parent].children = Append(@, Len(tree) + 1)], node)

\* DTree.attributes: the attributes the tree built so far splits on.
DTreeAttributes(tree) == {tree[i].attribute : i \in {j \in DOMAIN tree : ~tree[j].leaf}}

Mut_remaining_attributes(tree) == attributes

remaining_attributes(tree) ==
    IF tree = <<>> THEN attributes
    ELSE SelectSeq(attributes, LAMBDA a : a \notin DTreeAttributes(tree))

-----------------------------------------------------------------------------
\* ID3.create_tree, lines 32-69: the subset of the call and the node it makes.
\* vals is self.values, order the iteration orders of the hash tables, tree is
\* self.dtree on entry; parent is the index of the parent node, None at the root.

\* max(counts, key=lambda k: counts[k])
Mut_most_common(order, counts) ==
    LET keys == Keys(order[dependent], counts)
    IN  keys[FirstMaxIndex([i \in DOMAIN keys |-> 0 - counts[keys[i]]])]

most_common(order, counts) ==
    LET keys == Keys(order[dependent], counts)
    IN  keys[FirstMaxIndex([i \in DOMAIN keys |-> counts[keys[i]]])]

\* information_gain=None of a leaf.
NoGain == [num |-> 0, den |-> 0]

NoNode == DTree(None, NoGain, TRUE, None)

CreateTreeBody(vals, order, tree, subset0, parent, parent_value) ==
    LET subset == IF parent = None THEN subset0
                  ELSE filter_subset(subset0, tree[parent].attribute, parent_value)
        counts == attr_counts(subset, dependent)
        rem == remaining_attributes(tree)
        igains == [i \in 1..Len(rem) |-> information_gain(vals, subset, rem[i])]
        \* the gains of one call share their denominator: the numerators order them
        best == FirstMaxIndex([i \in DOMAIN igains |-> igains[i].num])
        out(raised, branch, node) ==
            [raised |-> raised, branch |-> branch, node |-> node, subset |-> subset,
             remaining |-> Range(rem), parent |-> parent, parent_value |-> parent_value]
    IN  IF Cardinality(DOMAIN counts) = 1
        THEN out("none", "pure",
                 DTree(Keys(order[dependent], counts)[1], NoGain, TRUE, parent_value))
        ELSE IF rem = <<>>
        THEN IF DOMAIN counts = {}
             THEN out("ValueError", "majority", NoNode)
             ELSE out("none", "majority", DTree(most_common(order, counts), NoGain, TRUE, parent_value))
        ELSE IF \E i \in 1..Len(rem) : igains[i].err # "none"
             THEN out("ZeroDivisionError", "split", NoNode)
             ELSE out("none", "split", DTree(rem[best], [num |-> igains[best].num, den |-> igains[best].den],
                                  FALSE, parent_value))

\* ID3.create_tree, lines 71-84: link the node, and enter the loop over the domain
\* values of its attribute unless it is a leaf.  rest is the stack of the callers.
Link(b, order, rest) ==
    /\ lastFrame' = [b EXCEPT !.node = None]
    /\ IF b.raised # "none"
       THEN /\ error' = b.raised
            /\ stack' = <<>>
            /\ UNCHANGED <<dtree, frames>>
       ELSE LET fr == [subset |-> b.subset, branch |-> b.branch,
                       remaining |-> b.remaining, parent |-> b.parent]
                tree == IF b.parent = None THEN <<set_attributes(b.node, attributes)>>
                        ELSE add_child(dtree, b.parent, b.node)
            IN  /\ error' = "none"
                /\ dtree' = tree
                /\ frames' = IF b.parent = None THEN <<fr>> ELSE Append(frames, fr)
                /\ stack' = IF b.node.leaf THEN rest
                            ELSE Append(rest, [node |-> Len(tree), subset |-> b.subset,
                                               todo |-> order[b.node.attribute]])

-----------------------------------------------------------------------------
\* The files: every sequence of at most MaxRows rows, up to the order of the rows
\* (rows are only ever counted and filtered) and up to the names of the values
\* (values are only ever compared for equality): the rows come in increasing order
\* and the values of a column are numbered from the most to the least frequent.

Rows ==
    {r \in [1..NumCols -> 1..(NumVals + NumLabels)] :
        /\ \A a \in Range(attributes) : r[a] <= NumVals
        /\ r[dependent] <= NumLabels}

RowLeq(r, s) ==
    \/ r = s
    \/ \E c \in 1..NumCols : r[c] < s[c] /\ \A d \in 1..(c - 1) : r[d] = s[d]

RECURSIVE Files(_)
Files(n) ==
    IF n = 0 THEN {<<>>}
    ELSE LET shorter == Files(n - 1)
         IN  shorter \cup
             UNION {{Append(f, r) : r \in {x \in Rows : f = <<>> \/ RowLeq(f[Len(f)], x)}} :
                        f \in {g \in shorter : Len(g) = n - 1}}

Occurrences(f, c, v) == Cardinality({i \in DOMAIN f : f[i][c] = v})

Normal(f) ==
    \A c \in 1..NumCols : \A v \in 1..(NumVals + NumLabels - 1) :
        Occurrences(f, c, v) >= Occurrences(f, c, v + 1)

Perms(S) == {p \in [1..Cardinality(S) -> S] : \A i, j \in DOMAIN p : p[i] = p[j] => i = j}

\* The iteration orders the hash tables may have: one order per column, of the
\* distinct values of the column.
RECURSIVE Orders(_, _)
Orders(vals, c) ==
    IF c = 0 THEN {<<>>}
    ELSE {Append(o, p) : o \in Orders(vals, c - 1), p \in Perms(vals[c])}

\* ID3(filename): nothing is read yet.
Init ==
    /\ file = <<>>
    /\ hashOrder = [c \in 1..NumCols |-> <<>>]
    /\ data = <<>>
    /\ values = [c \in 1..NumCols |-> {}]
    /\ dtree = <<>>
    /\ stack = <<>>
    /\ error = "none"
    /\ runs = 0
    /\ frames = <<>>
    /\ lastFrame = [raised |-> "none", branch |-> "none", node |-> None, subset |-> <<>>,
                    remaining |-> {}, parent |-> None, parent_value |-> None]
    /\ prevTree = [tree |-> <<>>, error |-> "none"]

\* ID3.learn: parse_csv, get_distinct_values, and the root call of create_tree.
\* The first call finds some file and some hash orders; a later call finds the same.
Learn ==
    /\ stack = <<>>
    /\ runs < MaxRuns
    /\ \E f \in IF runs = 0 THEN {g \in Files(MaxRows) : Normal(g)} ELSE {file} :
       \E o \in IF runs = 0 THEN Orders(get_distinct_values(f), NumCols) ELSE {hashOrder} :
           /\ file' = f
           /\ hashOrder' = o
           /\ data' = f
           /\ values' = get_distinct_values(f)
           /\ Link(CreateTreeBody(get_distinct_values(f), o, dtree, f, None, None), o, <<>>)
    /\ runs' = runs + 1
    /\ prevTree' = [tree |-> dtree, error |-> error]

\* Lines 79-84 and the body of the call they make: the next domain value of the
\* innermost loop, and create_tree(subset, node, value) up to its own loop.
Recurse ==
    /\ stack # <<>>
    /\ LET top == stack[Len(stack)]
       IN  /\ top.todo # <<>>
           /\ Link(CreateTreeBody(values, hashOrder, dtree, top.subset, top.node, Head(top.todo)),
                   hashOrder, [stack EXCEPT ![Len(stack)].todo = Tail(@)])
    /\ UNCHANGED <<file, hashOrder, data, values, runs, prevTree>>

\* The loop of the innermost call is over (or its node has no domain value): it returns.
Return ==
    /\ stack # <<>>
    /\ stack[Len(stack)].todo = <<>>
    /\ stack' = SubSeq(stack, 1, Len(stack) - 1)
    /\ UNCHANGED <<file, hashOrder, data, values, dtree, error, runs, frames, lastFrame, prevTree>>

Next == Learn \/ Recurse \/ Return

Spec == Init /\ [][Next]_vars

-----------------------------------------------------------------------------
\* The tree as the claims speak of it.

\* learn() has been called and has returned or raised.
Done == runs > 0 /\ stack = <<>>

Internal(i) == ~dtree[i].leaf

RECURSIVE PathNodes(_)
\* The nodes from the root to node i, both included.
PathNodes(i) == IF i = None THEN {} ELSE {i} \cup PathNodes(frames[i].parent)

\* The split attributes on the path from the root to node p inclusive.
PathAttrs(p) == {dtree[j].attribute : j \in {k \in PathNodes(p) : Internal(k)}}

\* The (split attribute, value) pairs on the path from the root to node i.
PathPairs(i) ==
    {<<dtree[frames[j].parent].attribute, dtree[j].parent_value>> :
        j \in {k \in PathNodes(i) : frames[k].parent # None}}

\* The rows of the dataset that match every pair on the path to node i.
ReplaySubset(i) ==
    SelectSeq(data, LAMBDA r : \A pr \in PathPairs(i) : r[pr[1]] = pr[2])

DependentValues(subset) == {subset[k][dependent] : k \in DOMAIN subset}

ChildValues(i) == {dtree[dtree[i].children[k]].parent_value : k \in DOMAIN dtree[i].children}

-----------------------------------------------------------------------------
\* C1: once learn() is over on a dataset with at least one row, every internal node
\* has exactly one child per value of the full-dataset domain of its split attribute:
\* no duplicate, no omission, also for the values no row of the node's subset has.
C1_OneChildPerDomainValue ==
    (Done /\ file # <<>>) =>
        \A i \in DOMAIN dtree :
            Internal(i) =>
                /\ Len(dtree[i].children) = Cardinality(values[dtree[i].attribute])
                /\ ChildValues(i) = values[dtree[i].attribute]

C3_SecondRunSameTree ==
    (Done /\ runs = 2 /\ file # <<>> /\ prevTree.error = "none") =>
        (error = "none" /\ dtree = prevTree.tree)

\* C4: learn() on a file without data rows raises EmptyDatasetError before any
\* node is made, and self.dtree stays None.
C4_EmptyDatasetRejected ==
    (runs > 0 /\ file = <<>>) => (error = "EmptyDatasetError" /\ dtree = <<>>)

C8_GainOnNonEmptySubset ==
    lastFrame.branch = "split" => lastFrame.subset # <<>>

\* C5: a node made on the branch "several dependent values, no attribute left" is
\* a leaf, and its label is a dependent value no other value outnumbers in the
\* subset of the call.
C5_MajorityLabel ==
    \A i \in DOMAIN dtree :
        frames[i].branch = "majority" =>
            LET counts == attr_counts(frames[i].subset, dependent)
            IN  /\ dtree[i].leaf
                /\ Cardinality(DOMAIN counts) > 1
                /\ dtree[i].attribute \in DOMAIN counts
                /\ \A d \in DOMAIN counts : counts[d] <= counts[dtree[i].attribute]

\* C5 happens: a majority leaf over a subset whose dependent values differ in count.
C5_Witness ==
    \E i \in DOMAIN dtree :
        /\ frames[i].branch = "majority"
        /\ \E d, e \in DependentValues(frames[i].subset) :
               Get(attr_counts(frames[i].subset, dependent), d)
                   < Get(attr_counts(frames[i].subset, dependent), e)

\* Depth and split attributes of the tree and the stack of calls.
DepthBounded ==
    /\ Len(stack) <= NumAttrs
    /\ \A i \in DOMAIN dtree :
           /\ Cardinality(PathNodes(i)) - 1 <= NumAttrs
           /\ \A j, k \in PathNodes(i) :
                  (Internal(j) /\ Internal(k) /\ dtree[j].attribute = dtree[k].attribute) => j = k

RECURSIVE CallBound(_)
\* A bound on the steps one create_tree call takes when r attributes are left to it:
\* its own body, and if it splits, one call per domain value and its return.
CallBound(r) == IF r <= 0 THEN 1 ELSE 2 + NumVals * CallBound(r - 1)

\* A bound on the steps the calls on the stack still have to take.
Rank ==
    SumFn([j \in DOMAIN stack |-> 1 + Len(stack[j].todo) * CallBound(NumAttrs - j)])

Present(vals, subset) ==
    [a \in DOMAIN vals |-> vals[a] \cap {subset[k][a] : k \in DOMAIN subset}]

\* C9: on the subset of any create_tree call, if it has at least one row,
\* information_gain raises nothing for any attribute; a domain value no row of the subset has contributes a term of exactly
\* zero (its entropy is 0), so the sum over the whole domain is the sum over the
\* values the subset has.
C9_AbsentValueContributesZero ==
    LET subset == lastFrame.subset
    IN  \A attr \in Range(attributes) :
        subset # <<>> =>
            /\ information_gain(values, subset, attr).err = "none"
            /\ information_gain(values, subset, attr)
                   = information_gain(Present(values, subset), subset, attr)
            /\ \A v \in values[attr] \ Present(values, subset)[attr] :
                   /\ entropy(subset, attr, v).num = 0
                   /\ GainTerm(subset, attr, v) = [err |-> "none", num |-> 0]

\* C9 happens: the gain of an attribute was computed over a subset with rows that
\* lacks a value of the attribute's domain.
C9_Witness ==
    /\ lastFrame.branch = "split"
    /\ lastFrame.raised = "none"
    /\ lastFrame.subset # <<>>
    /\ \E attr \in lastFrame.remaining :
           values[attr] \ Present(values, lastFrame.subset)[attr] # {}

====
